---- MODULE Spec2Model ----
\* Model of the rush "publish" action (PublishAction): one run of
\* PublishAction.run in its three modes (regenerate changelogs, bulk
\* --include-all, change-driven), against a source-control gateway (Git),
\* a change manager (ChangeManager) and a package registry (npm).
EXTENDS Integers, Sequences, FiniteSets, TLC

\* ---------------------------------------------------------------- bounds

\* Number of consecutive bulk (--include-all) runs with the same flags.
MaxRuns == 2

\* Number of change request files in the changes folder when the loading
\* of the changes is examined on its own (SpecLoad).
MaxChangeFiles == 2

\* ------------------------------------------------------------ data model

\* The projects of rush.json, in the iteration order of projectsByName.
PackageOrder == <<"a", "b", "c">>
Packages == {PackageOrder[i] : i \in 1..Len(PackageOrder)}

\* ChangeType (data/ChangeManagement): none < dependency < patch < minor < major.
none == 0
dependency == 1
patch == 2
minor == 3
major == 4
ChangeTypes == {none, dependency, patch, minor, major}

\* Change types a merged change request carries in the modelled runs.
RequestTypes == {none, patch, major}

\* Dependency graphs of the modelled repositories (p |-> packages p depends on).
ChainGraph == [p \in Packages |-> CASE p = "a" -> {} [] p = "b" -> {"a"} [] OTHER -> {"b"}]
FanGraph == [p \in Packages |-> CASE p = "a" -> {} [] OTHER -> {"a"}]
DepGraphs == {ChainGraph, FanGraph}

\* versionPolicyName of each project, and the values of --version-policy
\* ("" is: not given).
VersionPolicyName == [p \in Packages |-> IF p = "c" THEN "vp2" ELSE "vp1"]
VersionPolicyValues == {"", "vp1"}

\* shouldPublish of the projects: at most one project is not publishable.
ShouldPublishMaps == {[p \in Packages |-> p # q] : q \in Packages \cup {"-"}}

TargetBranch == "target"
TempBranch == "publish-temp"
Branches == {TargetBranch, TempBranch}
BaseCommit == "base"
ReleaseCommit == "release"

VARIABLES
  \* command-line parameters and configuration (fixed during a run)
  policyOk, regenerateChangelogs, includeAll, prereleaseName, suffix,
  apply, publish, registryUrl, force, versionPolicy,
  shouldPublish, dependencies, changeFiles,
  \* position of the run
  pc, runNo, outcome, failedStep, stepLog,
  \* ChangeManager
  changesLoaded, orderedChanges, idx,
  editedManifests, changelogs, changeFilesDeleted, regenerated,
  \* Git
  currentBranch, localBranches, remoteBranches, localCommits, remoteCommits,
  releaseContent, tags, remoteTags, tagged,
  \* registry and publisher
  registry, invoked, executed, publishFailed, publishCount,
  \* _publishAll locals and the record of earlier runs
  updated, skipped, pushedTarget, runHistory

config == <<policyOk, regenerateChangelogs, includeAll, prereleaseName, suffix,
            apply, publish, registryUrl, force, versionPolicy,
            shouldPublish, dependencies, changeFiles>>
position == <<pc, runNo, outcome, failedStep, stepLog>>
changeManager == <<changesLoaded, orderedChanges, idx,
                   editedManifests, changelogs, changeFilesDeleted, regenerated>>
gitBranches == <<currentBranch, localBranches, remoteBranches, localCommits, remoteCommits,
                 releaseContent>>
gitTags == <<tags, remoteTags, tagged>>
git == <<gitBranches, gitTags>>
publisher == <<registry, invoked, executed, publishFailed, publishCount>>
bulk == <<updated, skipped, pushedTarget, runHistory>>
vars == <<config, position, changeManager, git, publisher, bulk>>

\* ------------------------------------------------- ChangeManager (load)

\* Mutant: a later change request replaces the earlier ones.
MergeChangeTypesLastWins(a, b) == b

\* Two change requests for one package merge to the higher change type.
MergeChangeTypes(a, b) == IF b > a THEN b ELSE a

\* The change type of package p after the files have been read and merged
\* one by one, in the order of the list.
RECURSIVE MergedType(_, _)
MergedType(files, p) ==
  IF files = <<>> THEN none
  ELSE LET earlier == MergedType(SubSeq(files, 1, Len(files) - 1), p)
           last == files[Len(files)]
       IN IF last.packageName = p
          THEN MergeChangeTypes(earlier, last.changeType)
          ELSE earlier

\* The merged change request of every package (none: no request).
requests == [p \in Packages |-> MergedType(changeFiles, p)]

\* A changes folder with one file for each package that has a request.
HasRequest(file) == file.changeType # none
FilesOf(types) ==
  SelectSeq([i \in 1..Len(PackageOrder) |->
               [packageName |-> PackageOrder[i], changeType |-> types[PackageOrder[i]]]],
            HasRequest)

\* Mutant: the graph is scanned once.
CascadeSingleScan(types, deps) ==
  [p \in Packages |->
     IF types[p] = none /\ \E q \in deps[p] : types[q] > none
     THEN dependency ELSE types[p]]

\* One propagation scan: a package with no change whose dependency has a
\* change greater than none is elevated to dependency.
Propagate(types, deps) ==
  [p \in Packages |->
     IF types[p] = none /\ \E q \in deps[p] : types[q] > none
     THEN dependency ELSE types[p]]

RECURSIVE Cascade(_, _)
Cascade(types, deps) ==
  IF Propagate(types, deps) = types THEN types
  ELSE Cascade(Propagate(types, deps), deps)

ResolvedTypes == Cascade(requests, dependencies)

ChangedPackages == {p \in Packages : ResolvedTypes[p] > none}

\* The orderings of the changed packages in which a package comes after
\* the packages it depends on.
OrderedLists ==
  {s \in [1..Cardinality(ChangedPackages) -> ChangedPackages] :
     /\ \A i, j \in DOMAIN s : i # j => s[i] # s[j]
     /\ \A i, j \in DOMAIN s : i < j => s[j] \notin dependencies[s[i]]}

ChangeInfo(p) == [packageName |-> p, changeType |-> ResolvedTypes[p]]

\* ------------------------------------------------------------------ Init

InitRun ==
  /\ pc = "run" /\ runNo = 1 /\ outcome = "running" /\ failedStep = "" /\ stepLog = <<>>
  /\ changesLoaded = FALSE /\ orderedChanges = <<>> /\ idx = 1
  /\ editedManifests = {} /\ changelogs = {} /\ changeFilesDeleted = FALSE
  /\ regenerated = FALSE
  /\ currentBranch = TargetBranch
  /\ localBranches = {TargetBranch} /\ remoteBranches = {TargetBranch}
  /\ localCommits = [b \in Branches |-> IF b = TargetBranch THEN {BaseCommit} ELSE {}]
  /\ remoteCommits = [b \in Branches |-> IF b = TargetBranch THEN {BaseCommit} ELSE {}]
  /\ releaseContent = {} /\ tags = {} /\ remoteTags = {} /\ tagged = {}
  /\ invoked = <<>> /\ executed = <<>> /\ publishFailed = {}
  /\ publishCount = [p \in Packages |-> 0]
  /\ updated = FALSE /\ skipped = {} /\ pushedTarget = FALSE /\ runHistory = <<>>

\* A bulk run reads no change request; a change-driven run computes new
\* versions, none of which is on the registry yet.
InitBulk ==
  /\ includeAll = TRUE
  /\ apply = FALSE /\ changeFiles = <<>> /\ dependencies = ChainGraph
  /\ force \in BOOLEAN
  /\ versionPolicy \in VersionPolicyValues
  /\ registry \in SUBSET Packages

InitChanges ==
  /\ includeAll = FALSE
  /\ apply \in BOOLEAN
  /\ changeFiles \in {FilesOf(types) : types \in [Packages -> RequestTypes]}
  /\ dependencies \in DepGraphs
  /\ force = FALSE /\ versionPolicy = ""
  /\ registry = {}

Init ==
  /\ policyOk \in BOOLEAN
  /\ regenerateChangelogs \in BOOLEAN
  /\ prereleaseName \in BOOLEAN /\ suffix \in BOOLEAN
  /\ publish \in BOOLEAN /\ registryUrl \in BOOLEAN
  /\ shouldPublish \in ShouldPublishMaps
  /\ (InitBulk \/ InitChanges)
  /\ InitRun

\* ------------------------------------------------------- PublishAction.run

\* PrereleaseToken's constructor rejects a name together with a suffix.
PrereleaseTokenConflict(name, sfx) == name /\ sfx

\* Mutant: the policy check is not looked at.
RunBranchWithoutPolicy ==
  IF regenerateChangelogs THEN "regenerate"
  ELSE IF includeAll THEN "publishAll"
  ELSE "publishChanges"

\* The branch run() takes.
RunBranch ==
  IF ~policyOk THEN "exit"
  ELSE IF regenerateChangelogs THEN "regenerate"
  ELSE IF includeAll THEN "publishAll"
  ELSE "publishChanges"

\* Mutant: the error is caught and logged, and run() goes on to its end.
ThrowSwallowed(step, kind) ==
  /\ pc' = "finish" /\ failedStep' = step
  /\ UNCHANGED <<runNo, outcome, stepLog>>

\* A thrown error leaves run(): the success message is not printed.
Throw(step, kind) ==
  /\ pc' = "ended" /\ outcome' = kind /\ failedStep' = step
  /\ UNCHANGED <<runNo, stepLog>>

LogStep(step, package) == stepLog' = Append(stepLog, [step |-> step, package |-> package])

PolicyFail ==
  /\ pc = "run" /\ RunBranch = "exit"
  /\ pc' = "ended" /\ outcome' = "exit1"
  /\ UNCHANGED <<config, runNo, failedStep, stepLog, changeManager, git, publisher, bulk>>

RegenerateChangelogs ==
  /\ pc = "run" /\ RunBranch = "regenerate"
  /\ regenerated' = TRUE
  /\ pc' = "ended" /\ outcome' = "returned"
  /\ UNCHANGED <<config, runNo, failedStep, stepLog, changesLoaded, orderedChanges, idx,
                 editedManifests, changelogs, changeFilesDeleted, git, publisher, bulk>>

StartPublishAll ==
  /\ pc = "run" /\ RunBranch = "publishAll"
  /\ pc' = "publishAll" /\ idx' = 1 /\ updated' = FALSE
  /\ UNCHANGED <<config, runNo, outcome, failedStep, stepLog, changesLoaded, orderedChanges,
                 editedManifests, changelogs, changeFilesDeleted, regenerated,
                 git, publisher, skipped, pushedTarget, runHistory>>

TokenConflict ==
  /\ pc = "run" /\ RunBranch = "publishChanges"
  /\ PrereleaseTokenConflict(prereleaseName, suffix)
  /\ Throw("prereleaseToken", "configError")
  /\ UNCHANGED <<config, changeManager, git, publisher, bulk>>

StartPublishChanges ==
  /\ pc = "run" /\ RunBranch = "publishChanges"
  /\ ~PrereleaseTokenConflict(prereleaseName, suffix)
  /\ pc' = "load"
  /\ UNCHANGED <<config, runNo, outcome, failedStep, stepLog, changeManager, git, publisher, bulk>>

\* Mutant: the success message is printed only when no step logged a failure.
FinishUnlessFailureLogged ==
  /\ pc = "finish"
  /\ pc' = "ended" /\ outcome' = IF failedStep = "" THEN "success" ELSE "error"
  /\ UNCHANGED <<config, runNo, failedStep, stepLog, changeManager, git, publisher, bulk>>

\* "Rush publish finished successfully."
Finish ==
  /\ pc = "finish"
  /\ pc' = "ended" /\ outcome' = "success"
  /\ UNCHANGED <<config, runNo, failedStep, stepLog, changeManager, git, publisher, bulk>>

\* ------------------------------------------------------------- _npmPublish

\* PublishUtilities.execCommand(shouldExecute, npm publish): a dry run only
\* prints; a real publish either puts the package on the registry or fails,
\* which is logged and returned to the caller.
ExecCommand(shouldExecute, p, ok) ==
  /\ executed' = Append(executed, p)
  /\ IF shouldExecute /\ ok
     THEN /\ registry' = registry \cup {p}
          /\ publishCount' = [publishCount EXCEPT ![p] = @ + 1]
          /\ UNCHANGED publishFailed
     ELSE IF shouldExecute
     THEN /\ publishFailed' = publishFailed \cup {p}
          /\ UNCHANGED <<registry, publishCount>>
     ELSE UNCHANGED <<registry, publishCount, publishFailed>>

\* Mutant: a failed publish is attempted a second time.
NpmPublishWithRetry(p, ok) ==
  /\ invoked' = (IF ok THEN Append(invoked, p) ELSE Append(Append(invoked, p), p))
  /\ IF shouldPublish[p]
     THEN ExecCommand(publish, p, ok)
     ELSE UNCHANGED <<executed, registry, publishCount, publishFailed>>

\* Mutant: the shouldPublish flag of the project is not looked at.
NpmPublishUnconditional(p, ok) ==
  /\ invoked' = Append(invoked, p)
  /\ ExecCommand(publish, p, ok)

NpmPublish(p, ok) ==
  /\ invoked' = Append(invoked, p)
  /\ IF shouldPublish[p]
     THEN ExecCommand(publish, p, ok)
     ELSE UNCHANGED <<executed, registry, publishCount, publishFailed>>

\* The outcomes a publish of p can have: a registry command that is really
\* executed can fail.
PublishOutcomes(p) == IF shouldPublish[p] /\ publish THEN BOOLEAN ELSE {TRUE}

\* Mutant: the registry override is not looked at.
ShouldTagOnPublish == publish

\* Mutant: the --publish flag is not looked at.
ShouldTagWithoutRegistry == ~registryUrl

\* First argument of git.addTag: whether the tag is really created.
ShouldTag == publish /\ ~registryUrl

\* --------------------------------------------------------- _publishChanges

HasChanges(changes) == \E i \in DOMAIN changes : changes[i].changeType > none

\* Mutant: the packages are published and tagged before the commit.
StepAfterPublishFirst(step) ==
  CASE step = "checkoutTemp"   -> "apply"
    [] step = "apply"          -> "publish"
    [] step = "publish"        -> "tag"
    [] step = "tag"            -> "commit"
    [] step = "commit"         -> "pushTemp"
    [] step = "pushTemp"       -> "pushTempTags"
    [] step = "pushTempTags"   -> "checkoutTarget"
    [] step = "checkoutTarget" -> "pull"
    [] step = "pull"           -> "merge"
    [] step = "merge"          -> "pushTarget"
    [] step = "pushTarget"     -> "deleteBranch"
    [] step = "deleteBranch"   -> "finish"

\* The order of the steps of _publishChanges (pc is the step to run next).
StepAfter(step) ==
  CASE step = "checkoutTemp"   -> "apply"
    [] step = "apply"          -> "commit"
    [] step = "commit"         -> "pushTemp"
    [] step = "pushTemp"       -> "publish"
    [] step = "publish"        -> "tag"
    [] step = "tag"            -> "pushTempTags"
    [] step = "pushTempTags"   -> "checkoutTarget"
    [] step = "checkoutTarget" -> "pull"
    [] step = "pull"           -> "merge"
    [] step = "merge"          -> "pushTarget"
    [] step = "pushTarget"     -> "deleteBranch"
    [] step = "deleteBranch"   -> "finish"

Advance(step) == pc' = StepAfter(step) /\ UNCHANGED <<runNo, outcome, failedStep>>

\* Mutant: the steps are entered without asking hasChanges().
LoadChangesUnguarded ==
  /\ pc = "load"
  /\ \E s \in OrderedLists :
       orderedChanges' = [i \in DOMAIN s |-> ChangeInfo(s[i])]
  /\ changesLoaded' = TRUE
  /\ pc' = "checkoutTemp"
  /\ UNCHANGED <<config, runNo, outcome, failedStep, stepLog, idx,
                 editedManifests, changelogs, changeFilesDeleted, regenerated,
                 git, publisher, bulk>>

\* changeManager.load and hasChanges()
LoadChanges ==
  /\ pc = "load"
  /\ \E s \in OrderedLists :
       orderedChanges' = [i \in DOMAIN s |-> ChangeInfo(s[i])]
  /\ changesLoaded' = TRUE
  /\ pc' = IF HasChanges(orderedChanges') THEN "checkoutTemp" ELSE "finish"
  /\ UNCHANGED <<config, runNo, outcome, failedStep, stepLog, idx,
                 editedManifests, changelogs, changeFilesDeleted, regenerated,
                 git, publisher, bulk>>

\* git.checkout(tempBranch, true): a new branch off the current one
CreateTempBranch ==
  /\ pc = "checkoutTemp"
  /\ localBranches' = localBranches \cup {TempBranch}
  /\ localCommits' = [localCommits EXCEPT ![TempBranch] = localCommits[currentBranch]]
  /\ currentBranch' = TempBranch
  /\ LogStep("checkoutTemp", "") /\ Advance("checkoutTemp")
  /\ UNCHANGED <<config, changeManager, remoteBranches, remoteCommits, releaseContent,
                 gitTags, publisher, bulk>>

\* changeManager.apply(write) and changeManager.updateChangelog(write)
ChangedNames == {orderedChanges[i].packageName : i \in DOMAIN orderedChanges}

ApplyChanges ==
  /\ pc = "apply"
  /\ IF apply
     THEN /\ editedManifests' = editedManifests \cup ChangedNames
          /\ changelogs' = changelogs \cup ChangedNames
          /\ changeFilesDeleted' = TRUE
     ELSE UNCHANGED <<editedManifests, changelogs, changeFilesDeleted>>
  /\ LogStep("apply", "") /\ Advance("apply")
  /\ UNCHANGED <<config, changesLoaded, orderedChanges, idx, regenerated, git, publisher, bulk>>

\* git.addChanges() and git.commit()
Commit ==
  /\ pc = "commit"
  /\ localCommits' = [localCommits EXCEPT ![currentBranch] = @ \cup {ReleaseCommit}]
  /\ releaseContent' = editedManifests
  /\ LogStep("commit", "") /\ Advance("commit")
  /\ UNCHANGED <<config, changeManager, currentBranch, localBranches, remoteBranches,
                 remoteCommits, gitTags, publisher, bulk>>

\* git.push(branch): the branch and its tags go to the remote
GitPush(branch) ==
  /\ remoteBranches' = remoteBranches \cup {branch}
  /\ remoteCommits' = [remoteCommits EXCEPT ![branch] = @ \cup localCommits[currentBranch]]
  /\ remoteTags' = remoteTags \cup tags

PushTemp ==
  /\ pc = "pushTemp"
  /\ GitPush(TempBranch)
  /\ idx' = 1
  /\ LogStep("pushTemp", "") /\ Advance("pushTemp")
  /\ UNCHANGED <<config, changesLoaded, orderedChanges, editedManifests, changelogs,
                 changeFilesDeleted, regenerated, currentBranch, localBranches, localCommits,
                 releaseContent, tags, tagged, publisher, bulk>>

\* Mutant: a dependency bump is published too.
NeedsPublishFromDependency(change) ==
  change.changeType # none /\ change.changeType >= dependency

\* The condition of the publish loop on one change.
NeedsPublish(change) == change.changeType # none /\ change.changeType > dependency

\* Mutant: the list is walked from its end.
ChangeAtReversed(k) == orderedChanges[Len(orderedChanges) + 1 - k]

\* The change the loops over orderedChanges visit at their k-th iteration.
ChangeAt(k) == orderedChanges[k]

PublishSkip ==
  /\ pc = "publish" /\ idx <= Len(orderedChanges)
  /\ ~NeedsPublish(ChangeAt(idx))
  /\ idx' = idx + 1
  /\ UNCHANGED <<config, position, changesLoaded, orderedChanges, editedManifests, changelogs,
                 changeFilesDeleted, regenerated, git, publisher, bulk>>

PublishEach ==
  /\ pc = "publish" /\ idx <= Len(orderedChanges)
  /\ NeedsPublish(ChangeAt(idx))
  /\ \E ok \in PublishOutcomes(ChangeAt(idx).packageName) :
       NpmPublish(ChangeAt(idx).packageName, ok)
  /\ idx' = idx + 1
  /\ LogStep("publish", ChangeAt(idx).packageName)
  /\ UNCHANGED <<config, pc, runNo, outcome, failedStep, changesLoaded, orderedChanges,
                 editedManifests, changelogs, changeFilesDeleted, regenerated, git, bulk>>

PublishDone ==
  /\ pc = "publish" /\ idx > Len(orderedChanges)
  /\ idx' = 1
  /\ Advance("publish")
  /\ UNCHANGED <<config, stepLog, changesLoaded, orderedChanges, editedManifests, changelogs,
                 changeFilesDeleted, regenerated, git, publisher, bulk>>

\* ------------------------------------------------------------- _gitAddTags

NeedsTag(change) ==
  /\ change.changeType # none
  /\ change.changeType > dependency
  /\ shouldPublish[change.packageName]

\* git.addTag(shouldExecute, packageName, version)
GitAddTag(shouldExecute, p) ==
  IF shouldExecute
  THEN tags' = tags \cup {p} /\ tagged' = tagged \cup {p}
  ELSE UNCHANGED <<tags, tagged>>

TagSkip ==
  /\ pc = "tag" /\ idx <= Len(orderedChanges)
  /\ ~NeedsTag(ChangeAt(idx))
  /\ idx' = idx + 1
  /\ UNCHANGED <<config, position, changesLoaded, orderedChanges, editedManifests, changelogs,
                 changeFilesDeleted, regenerated, git, publisher, bulk>>

TagEach ==
  /\ pc = "tag" /\ idx <= Len(orderedChanges)
  /\ NeedsTag(ChangeAt(idx))
  /\ GitAddTag(ShouldTag, ChangeAt(idx).packageName)
  /\ idx' = idx + 1
  /\ LogStep("tag", ChangeAt(idx).packageName)
  /\ UNCHANGED <<config, pc, runNo, outcome, failedStep, changesLoaded, orderedChanges,
                 editedManifests, changelogs, changeFilesDeleted, regenerated,
                 gitBranches, remoteTags, publisher, bulk>>

TagDone ==
  /\ pc = "tag" /\ idx > Len(orderedChanges)
  /\ idx' = 1
  /\ Advance("tag")
  /\ UNCHANGED <<config, stepLog, changesLoaded, orderedChanges, editedManifests, changelogs,
                 changeFilesDeleted, regenerated, git, publisher, bulk>>

PushTempTags ==
  /\ pc = "pushTempTags"
  /\ GitPush(TempBranch)
  /\ LogStep("pushTempTags", "") /\ Advance("pushTempTags")
  /\ UNCHANGED <<config, changeManager, currentBranch, localBranches, localCommits,
                 releaseContent, tags, tagged, publisher, bulk>>

\* ------------------------------------------------- merge to target branch

CheckoutTarget ==
  /\ pc = "checkoutTarget"
  /\ currentBranch' = TargetBranch
  /\ LogStep("checkoutTarget", "") /\ Advance("checkoutTarget")
  /\ UNCHANGED <<config, changeManager, localBranches, remoteBranches, localCommits,
                 remoteCommits, releaseContent, gitTags, publisher, bulk>>

PullTarget ==
  /\ pc = "pull"
  /\ localCommits' = [localCommits EXCEPT ![currentBranch] = @ \cup remoteCommits[currentBranch]]
  /\ LogStep("pull", "") /\ Advance("pull")
  /\ UNCHANGED <<config, changeManager, currentBranch, localBranches, remoteBranches,
                 remoteCommits, releaseContent, gitTags, publisher, bulk>>

Merge ==
  /\ pc = "merge"
  /\ localCommits' = [localCommits EXCEPT ![currentBranch] = @ \cup localCommits[TempBranch]]
  /\ LogStep("merge", "") /\ Advance("merge")
  /\ UNCHANGED <<config, changeManager, currentBranch, localBranches, remoteBranches,
                 remoteCommits, releaseContent, gitTags, publisher, bulk>>

PushTarget ==
  /\ pc = "pushTarget"
  /\ GitPush(TargetBranch)
  /\ pushedTarget' = TRUE
  /\ LogStep("pushTarget", "") /\ Advance("pushTarget")
  /\ UNCHANGED <<config, changeManager, currentBranch, localBranches, localCommits,
                 releaseContent, tags, tagged, publisher, updated, skipped, runHistory>>

\* git.deleteBranch(tempBranch): the branch goes, locally and on the remote
DeleteTempBranch ==
  /\ pc = "deleteBranch"
  /\ localBranches' = localBranches \ {TempBranch}
  /\ remoteBranches' = remoteBranches \ {TempBranch}
  /\ localCommits' = [localCommits EXCEPT ![TempBranch] = {}]
  /\ remoteCommits' = [remoteCommits EXCEPT ![TempBranch] = {}]
  /\ LogStep("deleteBranch", "") /\ Advance("deleteBranch")
  /\ UNCHANGED <<config, changeManager, currentBranch, releaseContent, gitTags, publisher, bulk>>

\* A failed deletion is logged by the gateway and does not stop the run.
DeleteTempBranchFails ==
  /\ pc = "deleteBranch"
  /\ failedStep' = "deleteBranch"
  /\ LogStep("deleteBranch", "")
  /\ pc' = StepAfter("deleteBranch")
  /\ UNCHANGED <<config, runNo, outcome, changeManager, git, publisher, bulk>>

\* ------------------------------------------------------------- _publishAll

\* The filter of the forEach over allPackages.
Eligible(p) ==
  shouldPublish[p] /\ (versionPolicy = "" \/ versionPolicy = VersionPolicyName[p])

\* _packageExists: the current version is among the published versions.
PackageExists(p) == p \in registry

\* Mutant: the test of _packageExists is not negated.
MustPublishIfExists(p) == force \/ PackageExists(p)

\* Whether an eligible package is published (and tagged) rather than skipped.
MustPublish(p) == force \/ ~PackageExists(p)

BulkIneligible ==
  /\ pc = "publishAll" /\ idx <= Len(PackageOrder)
  /\ ~Eligible(PackageOrder[idx])
  /\ idx' = idx + 1
  /\ UNCHANGED <<config, position, changesLoaded, orderedChanges, editedManifests, changelogs,
                 changeFilesDeleted, regenerated, git, publisher, bulk>>

BulkPublish ==
  /\ pc = "publishAll" /\ idx <= Len(PackageOrder)
  /\ Eligible(PackageOrder[idx]) /\ MustPublish(PackageOrder[idx])
  /\ \E ok \in PublishOutcomes(PackageOrder[idx]) : NpmPublish(PackageOrder[idx], ok)
  /\ LogStep("publish", PackageOrder[idx])
  /\ pc' = "bulkTag"
  /\ UNCHANGED <<config, runNo, outcome, failedStep, changeManager, git, bulk>>

BulkTag ==
  /\ pc = "bulkTag"
  /\ GitAddTag(ShouldTag, PackageOrder[idx])
  /\ updated' = TRUE
  /\ idx' = idx + 1
  /\ LogStep("tag", PackageOrder[idx])
  /\ pc' = "publishAll"
  /\ UNCHANGED <<config, runNo, outcome, failedStep, changesLoaded, orderedChanges,
                 editedManifests, changelogs, changeFilesDeleted, regenerated,
                 gitBranches, remoteTags, publisher, skipped, pushedTarget, runHistory>>

\* "Skip <package>. Not updated."
BulkSkip ==
  /\ pc = "publishAll" /\ idx <= Len(PackageOrder)
  /\ Eligible(PackageOrder[idx]) /\ ~MustPublish(PackageOrder[idx])
  /\ skipped' = skipped \cup {PackageOrder[idx]}
  /\ idx' = idx + 1
  /\ UNCHANGED <<config, position, changesLoaded, orderedChanges, editedManifests, changelogs,
                 changeFilesDeleted, regenerated, git, publisher,
                 updated, pushedTarget, runHistory>>

\* Mutant: the target branch is pushed whether or not a package was published.
BulkDoneAlwaysPush ==
  /\ pc = "publishAll" /\ idx > Len(PackageOrder)
  /\ pc' = "bulkPush"
  /\ UNCHANGED <<config, runNo, outcome, failedStep, stepLog, changeManager, git,
                 publisher, bulk>>

BulkDone ==
  /\ pc = "publishAll" /\ idx > Len(PackageOrder)
  /\ pc' = IF updated THEN "bulkPush" ELSE "finish"
  /\ UNCHANGED <<config, runNo, outcome, failedStep, stepLog, changeManager, git,
                 publisher, bulk>>

BulkPush ==
  /\ pc = "bulkPush"
  /\ GitPush(TargetBranch)
  /\ pushedTarget' = TRUE
  /\ LogStep("pushTarget", "")
  /\ pc' = "finish"
  /\ UNCHANGED <<config, runNo, outcome, failedStep, changeManager, currentBranch,
                 localBranches, localCommits, releaseContent, tags, tagged, publisher,
                 updated, skipped, runHistory>>

\* ---------------------------------------------------- failing operations

\* The steps whose error propagates out of run(): every source-control
\* operation but the branch deletion, and the change manager's apply.
GitSteps == {"checkoutTemp", "commit", "pushTemp", "pushTempTags", "checkoutTarget",
             "pull", "merge", "pushTarget", "bulkPush"}
ThrowingSteps == GitSteps \cup {"apply"}

\* A tag is about to be really created.
TagPending ==
  \/ pc = "bulkTag" /\ ShouldTag
  \/ pc = "tag" /\ idx <= Len(orderedChanges) /\ NeedsTag(ChangeAt(idx)) /\ ShouldTag

StepFails ==
  /\ pc \in ThrowingSteps \/ TagPending
  /\ Throw(IF pc = "bulkTag" THEN "tag" ELSE pc, "error")
  /\ UNCHANGED <<config, changeManager, git, publisher, bulk>>

\* ------------------------------------------------- the next bulk run

\* The same command is run again: the repository and the registry are as
\* the earlier run left them.
RunAgain ==
  /\ pc = "ended" /\ RunBranch = "publishAll" /\ runNo < MaxRuns
  /\ runHistory' = Append(runHistory,
       [outcome |-> outcome, invoked |-> invoked, publishFailed |-> publishFailed,
        registry |-> registry])
  /\ pc' = "run" /\ runNo' = runNo + 1 /\ outcome' = "running" /\ failedStep' = ""
  /\ stepLog' = <<>> /\ idx' = 1
  /\ invoked' = <<>> /\ executed' = <<>> /\ publishFailed' = {}
  /\ tagged' = {} /\ updated' = FALSE /\ skipped' = {} /\ pushedTarget' = FALSE
  /\ UNCHANGED <<config, changesLoaded, orderedChanges, editedManifests, changelogs,
                 changeFilesDeleted, regenerated, gitBranches, tags, remoteTags,
                 registry, publishCount>>

\* ------------------------------------------------------------------- Spec

Next ==
  \/ PolicyFail \/ RegenerateChangelogs \/ StartPublishAll \/ TokenConflict
  \/ StartPublishChanges \/ Finish
  \/ LoadChanges \/ CreateTempBranch \/ ApplyChanges \/ Commit \/ PushTemp
  \/ PublishSkip \/ PublishEach \/ PublishDone
  \/ TagSkip \/ TagEach \/ TagDone \/ PushTempTags
  \/ CheckoutTarget \/ PullTarget \/ Merge \/ PushTarget
  \/ DeleteTempBranch \/ DeleteTempBranchFails
  \/ BulkIneligible \/ BulkPublish \/ BulkTag \/ BulkSkip \/ BulkDone \/ BulkPush
  \/ StepFails \/ RunAgain

Spec == Init /\ [][Next]_vars

\* ---------------------------------------- loading the changes on its own

\* Dependency graphs and changes folders for the loading of the changes:
\* any list of at most MaxChangeFiles requests, of any package and type.
NoDepsGraph == [p \in Packages |-> {}]
JoinGraph == [p \in Packages |-> IF p = "c" THEN {"a", "b"} ELSE {}]
LoadGraphs == DepGraphs \cup {NoDepsGraph, JoinGraph}
ChangeFileRecords == [packageName : Packages, changeType : ChangeTypes]
ChangeFileLists == UNION {[1..n -> ChangeFileRecords] : n \in 0..MaxChangeFiles}

InitLoad ==
  /\ policyOk = TRUE /\ regenerateChangelogs = FALSE /\ includeAll = FALSE
  /\ prereleaseName = FALSE /\ suffix = FALSE
  /\ apply = TRUE /\ publish = TRUE /\ registryUrl = FALSE
  /\ force = FALSE /\ versionPolicy = ""
  /\ shouldPublish = [p \in Packages |-> TRUE]
  /\ dependencies \in LoadGraphs
  /\ changeFiles \in ChangeFileLists
  /\ registry = {}
  /\ InitRun

NextLoad == StartPublishChanges \/ LoadChanges

SpecLoad == InitLoad /\ [][NextLoad]_vars

\* ================================================================ claims

\* Position of a step in the documented sequence of a change-driven run.
Rank(step) ==
  CASE step = "checkoutTemp"   -> 1
    [] step = "apply"          -> 2
    [] step = "commit"         -> 3
    [] step = "pushTemp"       -> 4
    [] step = "publish"        -> 5
    [] step = "tag"            -> 6
    [] step = "pushTempTags"   -> 7
    [] step = "checkoutTarget" -> 8
    [] step = "pull"           -> 9
    [] step = "merge"          -> 10
    [] step = "pushTarget"     -> 11
    [] step = "deleteBranch"   -> 12
    [] OTHER                   -> 13

SingleSteps == {"checkoutTemp", "apply", "commit", "pushTemp", "pushTempTags",
                "checkoutTarget", "pull", "merge", "pushTarget", "deleteBranch"}

Entries(step) == {i \in DOMAIN stepLog : stepLog[i].step = step}
EntriesOf(step, p) == {i \in Entries(step) : stepLog[i].package = p}

ChangeRun == RunBranch = "publishChanges"
BulkRun == RunBranch = "publishAll"

\* A change-driven run that found changes and ended with no failed step.
CleanChangeRun ==
  /\ ChangeRun /\ pc = "ended" /\ outcome = "success"
  /\ HasChanges(orderedChanges) /\ failedStep = "" /\ publishFailed = {}

PublishedNames == {invoked[i] : i \in DOMAIN invoked}

\* C1: in a change-driven run with changes and no failing step the steps run
\* once each in the order temp branch, apply, commit, push temp, publish
\* each, tag, push temp, checkout target, pull, merge, push target, delete
\* temp branch; and at every moment a published package was committed
\* before and a tagged package was published before.
C1_StepOrder ==
  /\ CleanChangeRun =>
       /\ \A i, j \in DOMAIN stepLog : i < j => Rank(stepLog[i].step) <= Rank(stepLog[j].step)
       /\ \A s \in SingleSteps : Cardinality(Entries(s)) = 1
       /\ \A p \in Packages : Cardinality(EntriesOf("publish", p)) <= 1
       /\ \A p \in Packages : Cardinality(EntriesOf("tag", p)) <= 1
       /\ \A i \in DOMAIN orderedChanges :
            NeedsPublish(orderedChanges[i]) =>
              EntriesOf("publish", orderedChanges[i].packageName) # {}
  /\ ChangeRun =>
       /\ \A j \in Entries("publish") : \E i \in Entries("commit") : i < j
       /\ \A j \in Entries("tag") :
            \E i \in EntriesOf("publish", stepLog[j].package) : i < j

C1_Witness ==
  /\ CleanChangeRun
  /\ Len(invoked) >= 2
  /\ Cardinality(Entries("tag")) >= 2
  /\ Len(stepLog) >= 14

\* C2: once a step after the creation of the temp branch has failed in a
\* change-driven run (apply, commit, a push, a registry publish, tagging,
\* checkout, pull, merge), the target branch, local and remote, holds
\* exactly the commits it held at the start of the run.
StepsAfterTempBranch == {"apply", "commit", "pushTemp", "tag", "pushTempTags",
                         "checkoutTarget", "pull", "merge", "pushTarget"}

C2_TargetUntouchedAfterFailure ==
  (ChangeRun /\ (publishFailed # {} \/ failedStep \in StepsAfterTempBranch)) =>
    /\ localCommits[TargetBranch] = {BaseCommit}
    /\ remoteCommits[TargetBranch] = {BaseCommit}

\* The packages p depends on, directly or through other packages.
RECURSIVE DependencyClosure(_, _)
DependencyClosure(ps, n) ==
  IF n = 0 THEN ps
  ELSE DependencyClosure(ps \cup UNION {dependencies[q] : q \in ps}, n - 1)
AllDependencies(p) == DependencyClosure(dependencies[p], Cardinality(Packages))

\* C3: in a change-driven run the publish invocations follow the ordered
\* change list: a dependency is never invoked after its dependent, when a
\* package is published every dependency of it that this run publishes has
\* been invoked before it, and a package is never on the registry while a
\* dependency that this run publishes successfully is still absent.
C3_DependencyFirst ==
  ChangeRun =>
    /\ \A i, j \in DOMAIN invoked : i < j => invoked[j] \notin AllDependencies(invoked[i])
    /\ \A j \in DOMAIN invoked : \A a \in AllDependencies(invoked[j]) :
         (changesLoaded /\ ResolvedTypes[a] > dependency) =>
            \E i \in DOMAIN invoked : i < j /\ invoked[i] = a
    /\ \A b \in registry : \A a \in AllDependencies(b) :
         (ResolvedTypes[a] > dependency /\ shouldPublish[a] /\ a \notin publishFailed) =>
            a \in registry

C3_Witness ==
  /\ ChangeRun
  /\ \E i, j \in DOMAIN invoked :
       /\ i < j /\ invoked[i] \in dependencies[invoked[j]]
       /\ invoked[i] \in registry /\ invoked[j] \in registry

\* The publish loop of _publishChanges has visited every change.
PublishLoopDone ==
  pc \in {"tag", "pushTempTags", "checkoutTarget", "pull", "merge", "pushTarget",
          "deleteBranch"}

Committed == Entries("commit") # {}

\* C4: in a change-driven run the publisher is invoked for exactly the
\* changes whose type is greater than dependency, once each; a change of
\* type dependency is in the commit (when the changes are applied) and is
\* neither published nor tagged.
C4_PublishExactlyRealChanges ==
  ChangeRun =>
    /\ \A i \in DOMAIN orderedChanges :
         LET c == orderedChanges[i] IN
           /\ c.changeType <= dependency =>
                /\ c.packageName \notin PublishedNames
                /\ c.packageName \notin registry
                /\ c.packageName \notin tags
                /\ EntriesOf("tag", c.packageName) = {}
           /\ (PublishLoopDone /\ c.changeType > dependency) =>
                Cardinality({k \in DOMAIN invoked : invoked[k] = c.packageName}) = 1
           /\ (Committed /\ apply) => c.packageName \in releaseContent
    /\ PublishedNames \subseteq
         {orderedChanges[i].packageName : i \in DOMAIN orderedChanges}
    /\ \A k, l \in DOMAIN invoked : k # l => invoked[k] # invoked[l]

C4_Witness ==
  /\ ChangeRun /\ pc = "ended" /\ outcome = "success" /\ apply
  /\ \E i, j \in DOMAIN orderedChanges :
       /\ orderedChanges[i].changeType = dependency
       /\ orderedChanges[i].packageName \in releaseContent
       /\ orderedChanges[i].packageName \notin PublishedNames
       /\ orderedChanges[j].changeType > dependency
       /\ orderedChanges[j].packageName \in registry
       /\ orderedChanges[j].packageName \in tags

\* C5: with a registry URL given no tag is ever created, in the
\* change-driven and in the bulk mode, whatever was published.
C5_NoTagWithRegistryOverride ==
  registryUrl => (tags = {} /\ tagged = {} /\ remoteTags = {})

C5_WitnessChanges ==
  /\ ChangeRun /\ registryUrl
  /\ \E j \in Entries("tag") : stepLog[j].package \in registry

C5_WitnessBulk ==
  /\ BulkRun /\ registryUrl
  /\ \E j \in Entries("tag") : publishCount[stepLog[j].package] > 0

\* A bulk run after an earlier one, without --force.
RepeatedBulkRun == BulkRun /\ ~force /\ runNo >= 2

\* The run before this one published for real and ended with the success
\* message and no failed publish.
PreviousRunPublishedAll ==
  /\ publish
  /\ runHistory[runNo - 1].outcome = "success"
  /\ runHistory[runNo - 1].publishFailed = {}


NothingPublishedThisRun ==
  /\ invoked = <<>> /\ executed = <<>>
  /\ tagged = {} /\ Entries("tag") = {}
  /\ ~pushedTarget /\ pc # "bulkPush"

\* The run before this one ended with the success message and no failed
\* publish.
PreviousRunSucceeded ==
  /\ runHistory[runNo - 1].outcome = "success"
  /\ runHistory[runNo - 1].publishFailed = {}

\* C6 as stated: in a bulk run that follows a successful bulk run, without
\* --force, every eligible package is skipped (no publish, no tag, no push)
\* and no package is published more than once over the runs.
C6_SecondRunSkipsAll ==
  (RepeatedBulkRun /\ PreviousRunSucceeded) =>
    /\ NothingPublishedThisRun
    /\ \A p \in Packages : publishCount[p] <= 1

\* C6 (amended): without --force no package reaches the registry more than
\* once over the runs, and when the earlier run had --publish set and ended
\* successfully with no failed publish, the next run skips every eligible
\* package: no publish, no tag, no push.
C6_RepublishIdempotent ==
  /\ (BulkRun /\ ~force) => \A p \in Packages : publishCount[p] <= 1
  /\ (RepeatedBulkRun /\ PreviousRunPublishedAll) =>
       /\ NothingPublishedThisRun
       /\ (pc \in {"finish", "ended"} => skipped = {p \in Packages : Eligible(p)})

C6_Witness ==
  /\ RepeatedBulkRun /\ PreviousRunPublishedAll
  /\ pc = "ended" /\ outcome = "success"
  /\ Len(runHistory[runNo - 1].invoked) >= 2
  /\ Cardinality(skipped) >= 2

\* C7: when a registry publish has failed, the run goes on to the other
\* packages and does not end with the success message.
AllChangesVisited ==
  \A i \in DOMAIN orderedChanges :
    NeedsPublish(orderedChanges[i]) => orderedChanges[i].packageName \in PublishedNames

C7_FailedPublishReported ==
  (ChangeRun /\ publishFailed # {} /\ pc = "ended" /\ failedStep = "") =>
    /\ AllChangesVisited
    /\ outcome # "success"

\* What a run can change: manifests, changelogs, branches, commits, tags
\* and the registry.
RepositoryUntouched ==
  /\ editedManifests = {} /\ changelogs = {} /\ ~changeFilesDeleted
  /\ currentBranch = TargetBranch
  /\ localBranches = {TargetBranch} /\ remoteBranches = {TargetBranch}
  /\ localCommits[TargetBranch] = {BaseCommit} /\ localCommits[TempBranch] = {}
  /\ remoteCommits[TargetBranch] = {BaseCommit} /\ remoteCommits[TempBranch] = {}
  /\ tags = {} /\ remoteTags = {}

RegistryUntouched == \A p \in Packages : publishCount[p] = 0

\* C8: with --apply and --publish both absent a run changes no manifest,
\* changelog, branch, commit, tag or registry content.
C8_DryRunChangesNothing ==
  (~apply /\ ~publish /\ ~regenerateChangelogs) =>
    (RepositoryUntouched /\ RegistryUntouched)

\* The source-control operations of a change-driven run whose failure
\* propagates.
FatalGitSteps == (GitSteps \ {"checkoutTemp", "bulkPush"}) \cup {"tag"}

StoppedAt(step) ==
  /\ pc = "ended" /\ outcome = "error"
  /\ \A i \in DOMAIN stepLog : Rank(stepLog[i].step) <= Rank(step)
  /\ Entries(step) = {} \/ step = "tag"
  /\ \A p \in Packages : publishCount[p] > 0 => p \in registry

\* C9 as stated: whichever source-control operation after the creation of
\* the temp branch fails, the branch deletion included, the run stops
\* there, is not reported successful and the registry keeps what was
\* published.
C9_AnyGitFailureStops ==
  (ChangeRun /\ failedStep \in FatalGitSteps \cup {"deleteBranch"}) => StoppedAt(failedStep)

\* C9 (amended): when a source-control operation after the creation of the
\* temp branch other than the final branch deletion fails, the run stops
\* there: no later step runs, the success message is not printed and the
\* packages already published stay on the registry.
C9_FatalGitFailureStops ==
  (ChangeRun /\ failedStep \in FatalGitSteps) => StoppedAt(failedStep)

C9_Witness ==
  /\ ChangeRun /\ failedStep = "merge" /\ pc = "ended"
  /\ \E p \in Packages : publishCount[p] > 0 /\ p \in tags

\* C10: when both a prerelease name and a suffix are given, no change
\* request is loaded, no branch is created, no manifest is edited and no
\* package is published, in whichever mode.
C10_NothingDoneOnTokenConflict ==
  (policyOk /\ PrereleaseTokenConflict(prereleaseName, suffix)) =>
    /\ ~changesLoaded
    /\ localBranches = {TargetBranch}
    /\ editedManifests = {}
    /\ RegistryUntouched

\* C11: when every earlier step of a change-driven run succeeded and only
\* the deletion of the temp branch fails, the run goes on to its end and is
\* reported successful, with the release merged into the target branch and
\* pushed.
C11_DeleteFailureNotFatal ==
  (ChangeRun /\ failedStep = "deleteBranch") =>
    /\ pc \in {"finish", "ended"}
    /\ pc = "ended" => outcome = "success"
    /\ ReleaseCommit \in localCommits[TargetBranch]
    /\ ReleaseCommit \in remoteCommits[TargetBranch]
    /\ pushedTarget
    /\ Cardinality(Entries("merge")) = 1 /\ Cardinality(Entries("pushTarget")) = 1

C11_Witness ==
  /\ ChangeRun /\ failedStep = "deleteBranch"
  /\ pc = "ended" /\ outcome = "success"
  /\ TempBranch \in localBranches
  /\ registry # {}

\* C12: in a bulk run the target branch is pushed at most once, only after
\* the last package has been visited and nothing is published or tagged
\* after it; a run that ends successfully has pushed exactly when it
\* published at least one package.
C12_BulkPushOnceAtEnd ==
  BulkRun =>
    /\ Cardinality(Entries("pushTarget")) <= 1
    /\ \A j \in Entries("pushTarget") : j = Len(stepLog)
    /\ pushedTarget <=> Entries("pushTarget") # {}
    /\ pushedTarget => (idx > Len(PackageOrder) /\ invoked # <<>>)
    /\ pc = "bulkPush" => invoked # <<>>
    /\ (pc = "ended" /\ outcome = "success") => (pushedTarget <=> invoked # <<>>)

C12_Witness ==
  /\ BulkRun /\ pc = "ended" /\ outcome = "success"
  /\ pushedTarget /\ Len(invoked) >= 2 /\ skipped # {}

C12_WitnessAllSkipped ==
  /\ BulkRun /\ pc = "ended" /\ outcome = "success"
  /\ ~pushedTarget /\ Cardinality(skipped) >= 2

\* C13: a change-driven run that loads no change (hasChanges() is false)
\* creates no temp branch and applies, commits, pushes, publishes, tags,
\* merges and deletes nothing.
C13_NoChangesNoSteps ==
  (ChangeRun /\ changesLoaded /\ ~HasChanges(orderedChanges)) =>
    /\ pc \in {"finish", "ended"}
    /\ stepLog = <<>> /\ invoked = <<>> /\ executed = <<>>
    /\ RepositoryUntouched /\ RegistryUntouched
    /\ ~pushedTarget

C13_Witness ==
  /\ ChangeRun /\ changesLoaded /\ ~HasChanges(orderedChanges)
  /\ pc = "ended" /\ outcome = "success" /\ apply /\ publish

\* C14: when the policy check fails the run ends at once with exit code 1:
\* no change request is loaded, no changelog is regenerated, no branch is
\* created and no package is published or tagged.
C14_PolicyFailureAborts ==
  ~policyOk =>
    /\ pc \in {"run", "ended"}
    /\ pc = "ended" => outcome = "exit1"
    /\ ~changesLoaded /\ ~regenerated
    /\ stepLog = <<>> /\ invoked = <<>> /\ executed = <<>>
    /\ RepositoryUntouched /\ RegistryUntouched

C14_Witness ==
  /\ ~policyOk /\ pc = "ended" /\ outcome = "exit1"
  /\ regenerateChangelogs /\ publish /\ apply

\* The change type the loaded list gives package p (none: not in the list).
LoadedType(p) ==
  IF \E i \in DOMAIN orderedChanges : orderedChanges[i].packageName = p
  THEN LET i == CHOOSE k \in DOMAIN orderedChanges : orderedChanges[k].packageName = p
       IN orderedChanges[i].changeType
  ELSE none

\* Number of propagation scans that change something.
RECURSIVE ScanCount(_, _)
ScanCount(types, deps) ==
  IF Propagate(types, deps) = types THEN 0
  ELSE 1 + ScanCount(Propagate(types, deps), deps)

\* C15: after the load no package without a change depends on a package
\* with one: the dependents of a changed package, at any depth of a chain,
\* are raised to dependency; a package with a request keeps its type, a
\* package is raised only because of a changed dependency, and the
\* propagation ends after fewer scans than there are packages.
C15_CascadeFixedPoint ==
  changesLoaded =>
    /\ \A p \in Packages : \A q \in dependencies[p] :
         LoadedType(q) > none => LoadedType(p) >= dependency
    /\ \A p \in Packages : \A q \in AllDependencies(p) :
         requests[q] > none => LoadedType(p) >= dependency
    /\ \A p \in Packages : requests[p] > none => LoadedType(p) = requests[p]
    /\ \A p \in Packages :
         (requests[p] = none /\ LoadedType(p) > none) =>
           /\ LoadedType(p) = dependency
           /\ \E q \in AllDependencies(p) : requests[q] > none
    /\ ScanCount(requests, dependencies) < Cardinality(Packages)

C15_Witness ==
  /\ changesLoaded /\ dependencies = ChainGraph
  /\ requests["a"] = major /\ requests["b"] = none /\ requests["c"] = none
  /\ LoadedType("b") = dependency /\ LoadedType("c") = dependency
  /\ ScanCount(requests, dependencies) = 2

MaxOf(types) == CHOOSE m \in types : \A t \in types : t <= m

RequestedTypes(files, p) ==
  {files[i].changeType : i \in {k \in DOMAIN files : files[k].packageName = p}}

Reorderings(files) ==
  {[i \in DOMAIN files |-> files[perm[i]]] :
     perm \in {f \in [DOMAIN files -> DOMAIN files] :
                 \A i, j \in DOMAIN files : i # j => f[i] # f[j]}}

\* C16: the merged change type of a package is the highest of the types of
\* its change requests under none < dependency < patch < minor < major, in
\* whatever order the requests are read, and the loaded change carries it.
C16_MergeIsMaximum ==
  \A p \in Packages :
    /\ requests[p] = MaxOf(RequestedTypes(changeFiles, p) \cup {none})
    /\ \A files \in Reorderings(changeFiles) : MergedType(files, p) = requests[p]
    /\ (changesLoaded /\ requests[p] > none) => LoadedType(p) = requests[p]

C16_Witness ==
  /\ changesLoaded
  /\ \E i, j \in DOMAIN changeFiles :
       /\ i < j /\ changeFiles[i].packageName = changeFiles[j].packageName
       /\ changeFiles[i].changeType = major /\ changeFiles[j].changeType = dependency
       /\ LoadedType(changeFiles[i].packageName) = major

Occurrences(seq, p) == Cardinality({i \in DOMAIN seq : seq[i] = p})

\* C17: within one run, in either mode, the publish of a package is invoked
\* at most once and its registry command is issued at most once, also when
\* the registry publish failed; over the runs a package is put on the
\* registry at most once per run.
C17_PublishAtMostOncePerRun ==
  \A p \in Packages :
    /\ Occurrences(invoked, p) <= 1
    /\ Occurrences(executed, p) <= 1
    /\ Cardinality(EntriesOf("publish", p)) <= 1
    /\ publishCount[p] <= runNo
    /\ p \in publishFailed => Occurrences(invoked, p) = 1 /\ Occurrences(executed, p) = 1

C17_Witness ==
  /\ ChangeRun /\ pc = "ended" /\ outcome = "success"
  /\ publishFailed # {} /\ Len(invoked) >= 2
  /\ \A p \in publishFailed : Occurrences(invoked, p) = 1

C17_WitnessBulk ==
  /\ BulkRun /\ pc = "ended" /\ outcome = "success"
  /\ publishFailed # {} /\ Len(invoked) >= 2
  /\ \A p \in publishFailed : Occurrences(invoked, p) = 1

\* C18: a package whose shouldPublish flag is false gets no registry
\* command and no tag, in either mode, whatever its change type: no run
\* puts it on the registry, its publish cannot fail, and the tagging skips it.
C18_NotPublishableNeverPublished ==
  \A p \in Packages :
    ~shouldPublish[p] =>
      /\ Occurrences(executed, p) = 0
      /\ publishCount[p] = 0 /\ p \notin publishFailed
      /\ p \notin tags /\ p \notin tagged /\ p \notin remoteTags
      /\ EntriesOf("tag", p) = {}
      /\ BulkRun => Occurrences(invoked, p) = 0

C18_Witness ==
  /\ ChangeRun /\ pc = "ended" /\ outcome = "success"
  /\ publish /\ ~registryUrl
  /\ \E p \in Packages :
       /\ ~shouldPublish[p] /\ LoadedType(p) > dependency
       /\ Occurrences(invoked, p) = 1 /\ Occurrences(executed, p) = 0
  /\ tags # {} /\ registry # {}

C18_WitnessBulk ==
  /\ BulkRun /\ pc = "ended" /\ outcome = "success" /\ publish /\ ~registryUrl
  /\ \E p \in Packages : ~shouldPublish[p] /\ p \notin skipped
  /\ tags # {}

\* C19: a tag is created only in a run with --publish and without registry
\* override: without --publish no tag exists, locally or on the remote,
\* although the tagging step is gone through; and a tagged package is one
\* whose registry command was really executed in this run.
C19_TagOnlyWhenPublishing ==
  /\ (tags # {} \/ tagged # {} \/ remoteTags # {}) => (publish /\ ~registryUrl)
  /\ ~publish => (tags = {} /\ tagged = {} /\ remoteTags = {})
  /\ \A p \in tagged : publish /\ Occurrences(executed, p) = 1

C19_Witness ==
  /\ ChangeRun /\ ~publish /\ ~registryUrl /\ pc = "ended" /\ outcome = "success"
  /\ Entries("tag") # {} /\ executed # <<>> /\ tags = {} /\ registry = {}

C19_WitnessBulk ==
  /\ BulkRun /\ ~publish /\ ~registryUrl /\ pc = "ended" /\ outcome = "success"
  /\ Entries("tag") # {} /\ executed # <<>> /\ tags = {}

====
